---------------------------- MODULE Spec2Model ----------------------------
(***************************************************************************)
(* DIoD: a dependency-injection registry.                                  *)
(*                                                                         *)
(*   - UseClass (src/unnamed/part_000): the by-class registration          *)
(*     strategy; withDependencies and build, with the arity check and the  *)
(*     autowire decision.                                                  *)
(*   - Container (src/src/container.ts): the recursive get, modelled with  *)
(*     an explicit call stack, one frame per active call of get.           *)
(*   - ContainerBuilder and its graph validation, the by-instance and      *)
(*     by-factory strategies and the reflection module are not among the   *)
(*     sources; they are modelled from the specification's sections 4.1,   *)
(*     6 and 7.                                                            *)
(*                                                                         *)
(* Three specifications:                                                   *)
(*   SpecUseClass  one UseClass object: createBuildable, withDependencies, *)
(*                 build, for every answer of the reflection module.       *)
(*   Spec          register / build / new Container / get.                 *)
(*   FairSpec      Spec plus: a running call of get keeps running.         *)
(***************************************************************************)
EXTENDS Integers, Sequences, FiniteSets, TLC

\* The identifiers (each also names the class registered under it).
Ids == {"A", "B", "C"}

\* Longest dependency list a registration or a service map entry declares.
MaxDeps == 2

\* Largest constructor parameter count the reflection module reports.
MaxArity == 2

\* Deepest call stack of get that is explored (a cyclic map recurses
\* without end; an acyclic one never goes deeper than its number of keys).
MaxDepth == 4

\* Number of top-level calls of get on one container.
MaxGets == 2

RECURSIVE SeqsOfLen(_, _)
SeqsOfLen(S, n) ==
  IF n = 0 THEN {<<>>}
  ELSE {Append(s, x) : s \in SeqsOfLen(S, n - 1), x \in S}

SeqsUpTo(S, n) == UNION {SeqsOfLen(S, k) : k \in 0..n}

\* The dependency lists a caller may declare.
DepLists == SeqsUpTo(Ids, MaxDeps)

Range(s) == {s[i] : i \in 1..Len(s)}

VARIABLES
  \* ---- one UseClass object (SpecUseClass) ----
  use,            \* the UseClass object: newable, dependencies, autowire
  classInfo,      \* what the reflection module answers for use.newable
  useResult,      \* outcome of UseClass.build: pending / ok / threw
  providerCalls,  \* reflection operations called by the last build, in order
  explicit,       \* the argument of the last withDependencies call, if any
  \* ---- builder and container (Spec, FairSpec) ----
  phase,          \* "registering" | "failed" | "ready"
  buildables,     \* ContainerBuilder's pending registrations
  buildCall,      \* whether build was called, and with which options
  buildError,     \* what build failed with
  services,       \* Container.services
  stack,          \* active calls of get, outermost first
  current,        \* the top-level call of get in progress or last finished
  history,        \* finished top-level calls of get, oldest first
  nextObj,        \* number of class instances constructed so far
  factoryCalls    \* number of factory invocations so far

useVars == <<use, classInfo, useResult, providerCalls, explicit>>
mainVars == <<phase, buildables, buildCall, buildError, services, stack,
              current, history, nextObj, factoryCalls>>
vars == <<use, classInfo, useResult, providerCalls, explicit,
          phase, buildables, buildCall, buildError, services, stack,
          current, history, nextObj, factoryCalls>>

-----------------------------------------------------------------------------
(* The reflection module ('../reflection'): the Dependency-List Provider.  *)

\* What the provider may answer for one class.
ClassInfos == [count : 0..MaxArity, types : DepLists]

reflection_getDependencyCount(info) == info.count

reflection_getDependencies(info) == info.types

-----------------------------------------------------------------------------
(* UseClass                                                                *)

\* new UseClass(newable): dependencies = [], autowire = true.
createBuildable(newable) ==
  [newable |-> newable, dependencies |-> <<>>, autowire |-> TRUE]

withDependencies(u, dependencies) ==
  [u EXCEPT !.dependencies = dependencies, !.autowire = FALSE]

effectiveAutowire_globalOnly(u, options) == options.autowire

\* const autowire = options.autowire && this.autowire
effectiveAutowire(u, options) == options.autowire /\ u.autowire

arityMismatch_ge(u, options, info) ==
  /\ ~effectiveAutowire(u, options)
  /\ reflection_getDependencyCount(info) >= Len(u.dependencies)

\* !autowire && getDependencyCount(this.newable) > this.dependencies.length
arityMismatch(u, options, info) ==
  /\ ~effectiveAutowire(u, options)
  /\ reflection_getDependencyCount(info) > Len(u.dependencies)

\* new Error(`Dependencies must be provided for non autowired services.
\* Service with missing dependencies: ${identifier.name}`)
ArityError(name) == [kind |-> "DependenciesMustBeProvided", name |-> name]

\* The call: the object afterwards, whether it threw, and the reflection
\* operations it called, in order. && short-circuits, so the count is asked
\* only when not autowiring; the list is asked only when autowiring.
setDependencyInformationIfNotExist(u, options, info) ==
  LET autowire   == effectiveAutowire(u, options)
      countCalls == IF ~autowire THEN <<"getDependencyCount">> ELSE <<>>
      listCalls  == IF autowire THEN <<"getDependencies">> ELSE <<>>
  IN  IF arityMismatch(u, options, info)
      THEN [threw |-> TRUE, error |-> ArityError(u.newable), use |-> u,
            calls |-> countCalls]
      ELSE [threw |-> FALSE, error |-> ArityError(u.newable),
            use |-> IF autowire
                    THEN [u EXCEPT !.dependencies = reflection_getDependencies(info)]
                    ELSE u,
            calls |-> countCalls \o listCalls]

UseClass_build(u, options, info) ==
  LET r == setDependencyInformationIfNotExist(u, options, info)
  IN  IF r.threw
      THEN [status |-> "threw", error |-> r.error, use |-> r.use, calls |-> r.calls]
      ELSE [status |-> "ok",
            data |-> [type |-> "Class",
                      class |-> r.use.newable,
                      dependencies |-> r.use.dependencies,
                      autowire |-> r.use.autowire],
            use |-> r.use, calls |-> r.calls]

BuildOptions == [autowire : BOOLEAN]

NoExplicit == [given |-> FALSE, list |-> <<>>]


-----------------------------------------------------------------------------
(* Values a container hands out.                                           *)

\* The value stored by useInstance for identifier id.
StoredInstance(id) == [kind |-> "instance", of |-> id, oid |-> 0, args |-> <<>>]

\* What the factory registered for identifier id returns.
FactoryProduct(id) == [kind |-> "product", of |-> id, oid |-> 0, args |-> <<>>]

NoValue == [kind |-> "none", of |-> "", oid |-> 0, args |-> <<>>]

NoError == [kind |-> "none", name |-> ""]

-----------------------------------------------------------------------------
(* ContainerBuilder: registrations.                                        *)

NoReg == [kind |-> "none"]

EmptyRegistry == [id \in Ids |-> NoReg]

EmptyMap == [id \in {} |-> NoReg]

\* The reflection module's answers for the classes A, B, C of this model:
\* A(), B(c: C), C(b: B, a: A).
Reflection(newable) ==
  CASE newable = "A" -> [count |-> 0, types |-> <<>>]
    [] newable = "B" -> [count |-> 1, types |-> <<"C">>]
    [] OTHER         -> [count |-> 2, types |-> <<"B", "A">>]

\* UseInstance.build and UseFactory.build: no dependencies.
UseInstance_build(reg) ==
  [type |-> "Instance", instance |-> reg.instance, dependencies |-> <<>>]

UseFactory_build(reg) ==
  [type |-> "Factory", factory |-> reg.factory, dependencies |-> <<>>]

Registered(regs) == {id \in Ids : regs[id].kind # "none"}

\* buildable.build(options) for the registration of id.
Buildable_build(regs, id, options) ==
  CASE regs[id].kind = "class" ->
         UseClass_build(regs[id].use, options, Reflection(regs[id].use.newable))
    [] regs[id].kind = "instance" ->
         [status |-> "ok", data |-> UseInstance_build(regs[id])]
    [] OTHER ->
         [status |-> "ok", data |-> UseFactory_build(regs[id])]

-----------------------------------------------------------------------------
(* ContainerBuilder: graph validation (specification, section 4.1).        *)

\* Outgoing edges: a by-class entry points to each declared dependency;
\* by-instance and by-factory entries are leaves.
Edges(map, id) ==
  IF map[id].type = "Class" THEN Range(map[id].dependencies) ELSE {}

\* Completeness check: (dependant, missing dependency) pairs.
MissingPairs(map) ==
  {p \in (DOMAIN map) \X Ids : p[2] \in Edges(map, p[1]) /\ p[2] \notin DOMAIN map}

IsCyclePath(map, p) ==
  /\ Len(p) >= 2
  /\ p[1] = p[Len(p)]
  /\ \A i \in 1..(Len(p) - 1) : p[i + 1] \in Edges(map, p[i])
  /\ \A i, j \in 1..(Len(p) - 1) : i # j => p[i] # p[j]

\* Every list of identifiers that could spell a loop.
LoopCandidates == UNION {SeqsOfLen(Ids, k) : k \in 2..(Cardinality(Ids) + 1)}

\* Cycle check: the loops a depth-first traversal can report, each an ordered
\* list starting and ending at the repeated node.
Cycles(map) ==
  {p \in LoopCandidates : Range(p) \subseteq DOMAIN map /\ IsCyclePath(map, p)}

NoFailure == [kinds |-> {}, name |-> "", missing |-> {}, cycle |-> <<>>]

ArityFailure(error) ==
  [kinds |-> {"DependencyArityMismatch"}, name |-> error.name,
   missing |-> {}, cycle |-> <<>>]

\* Both graph-wide checks run to completion and report: every missing
\* binding, and the loop the traversal ran into (which one depends on where
\* the traversal starts).
ValidationFailures(missing, cycles) ==
  LET kinds == (IF missing = {} THEN {} ELSE {"UnregisteredDependency"})
                 \cup (IF cycles = {} THEN {} ELSE {"CircularDependency"})
  IN  {[kinds |-> kinds, name |-> "", missing |-> missing, cycle |-> c] :
         c \in (IF cycles = {} THEN {<<>>} ELSE cycles)}

\* Every outcome ContainerBuilder.build(options) can have on the pending
\* registrations regs: each by-class strategy is built first (the first one
\* whose arity check throws ends the build; which one is first depends on the
\* order of registration), then the graph is validated.
BuildOutcomes(regs, options) ==
  LET keys     == Registered(regs)
      results  == [id \in keys |-> Buildable_build(regs, id, options)]
      throwers == {id \in keys : results[id].status = "threw"}
      map      == [id \in keys |-> results[id].data]
      missing  == MissingPairs(map)
      cycles   == Cycles(map)
  IN  IF throwers # {}
      THEN {[ok |-> FALSE, map |-> EmptyMap,
             failure |-> ArityFailure(results[id].error)] : id \in throwers}
      ELSE IF missing # {} \/ cycles # {}
      THEN {[ok |-> FALSE, map |-> EmptyMap, failure |-> f] :
              f \in ValidationFailures(missing, cycles)}
      ELSE {[ok |-> TRUE, map |-> map, failure |-> NoFailure]}

-----------------------------------------------------------------------------
(* Container                                                               *)

\* The shapes of the entries new Container(services) is given directly: a
\* by-class entry with a dependency list that names no identifier twice, a
\* by-instance or by-factory entry (no dependencies), or no entry.
EntryShapes ==
  {[type |-> "Class", dependencies |-> d] :
     d \in {l \in DepLists : Cardinality(Range(l)) = Len(l)}}
    \cup {[type |-> t, dependencies |-> <<>>] : t \in {"Instance", "Factory", "Absent"}}

\* The ServiceData of that shape for identifier id.
ServiceDataOf(id, shape) ==
  CASE shape.type = "Class" ->
         [type |-> "Class", class |-> id, dependencies |-> shape.dependencies,
          autowire |-> FALSE]
    [] shape.type = "Instance" ->
         [type |-> "Instance", instance |-> StoredInstance(id), dependencies |-> <<>>]
    [] OTHER ->
         [type |-> "Factory", factory |-> id, dependencies |-> <<>>]

\* The service map with one entry per identifier whose shape is not Absent.
ServiceMapOf(shapes) ==
  [id \in {i \in Ids : shapes[i].type # "Absent"} |-> ServiceDataOf(id, shapes[id])]

NotRegisteredError(id) == [kind |-> "ServiceNotRegistered", name |-> id]

findServiceDataOrThrow_unchecked(svcs, id) ==
  IF id \notin DOMAIN svcs
  THEN [threw |-> TRUE, error |-> [kind |-> "TypeError", name |-> ""]]
  ELSE [threw |-> FALSE, error |-> NoError]

\* const service = this.services.get(identifier); if (!service) throw ...
findServiceDataOrThrow(svcs, id) ==
  IF id \notin DOMAIN svcs
  THEN [threw |-> TRUE, error |-> NotRegisteredError(id)]
  ELSE [threw |-> FALSE, error |-> NoError]

\* One active call of get: the identifier asked for and the local array
\* `dependencies` of getDependencies, filled so far.
Frame(id) == [identifier |-> id, dependencies |-> <<>>]

hasNext_offByOne(dependencies, dependencyIdentifiers) ==
  Len(dependencies) + 1 < Len(dependencyIdentifiers)

\* for (const dependencyIdentifier of dependencyIdentifiers): one identifier
\* is still to be resolved.
hasNext(dependencies, dependencyIdentifiers) ==
  Len(dependencies) < Len(dependencyIdentifiers)

pushDependency_unshift(dependencies, value) == <<value>> \o dependencies

\* dependencies.push(this.get(dependencyIdentifier))
pushDependency(dependencies, value) == Append(dependencies, value)

construct_cached(data, dependencies, n) ==
  [kind |-> "object", of |-> data.class, oid |-> 1, args |-> dependencies]

\* new data.class(...dependencies): the n+1-th object this container makes.
construct(data, dependencies, n) ==
  [kind |-> "object", of |-> data.class, oid |-> n + 1, args |-> dependencies]

realize_copy(data, dependencies, n) ==
  IF data.type = "Class" THEN construct(data, dependencies, n)
  ELSE IF data.type = "Instance"
  THEN [kind |-> "object", of |-> data.instance.of, oid |-> n + 1, args |-> <<>>]
  ELSE FactoryProduct(data.factory)

\* The three returns of get.
realize(data, dependencies, n) ==
  IF data.type = "Class" THEN construct(data, dependencies, n)
  ELSE IF data.type = "Instance" THEN data.instance
  ELSE FactoryProduct(data.factory)

Idle == [status |-> "idle", identifier |-> "", objs0 |-> 0, fact0 |-> 0]

Running(id) ==
  [status |-> "running", identifier |-> id, objs0 |-> nextObj, fact0 |-> factoryCalls]

\* The record of a finished top-level call.
Finished(call, status, value, error, objs, facts) ==
  [identifier |-> call.identifier, status |-> status, value |-> value,
   error |-> error, objs0 |-> call.objs0, fact0 |-> call.fact0,
   objs1 |-> objs, fact1 |-> facts]

-----------------------------------------------------------------------------
(* What a set of pending registrations declares (specification, sections   *)
(* 3 and 4.1), stated on the registrations themselves.                     *)

\* The nodes reachable from the set `from` along at most n more edges of E.
RECURSIVE Reach(_, _, _)
Reach(E, from, n) ==
  IF n = 0 THEN from
  ELSE Reach(E, from \cup UNION {E[x] : x \in from}, n - 1)

\* Some node reaches itself along one or more edges.
FormsCycle(E) ==
  \E a \in DOMAIN E : a \in Reach(E, E[a], Cardinality(DOMAIN E))

\* p is a loop of E: it starts and ends at the same node and follows edges.
IsLoop(E, p) ==
  /\ Len(p) >= 2
  /\ p[1] = p[Len(p)]
  /\ \A i \in 1..(Len(p) - 1) : p[i] \in DOMAIN E /\ p[i + 1] \in E[p[i]]

\* The dependency list of a pending by-class registration: the explicit list
\* if one was given, else the provider's list if the global option asks for
\* auto-wiring, else the empty list.
DeclaredDependencies(reg, options) ==
  IF ~reg.use.autowire THEN reg.use.dependencies
  ELSE IF options.autowire THEN Reflection(reg.use.newable).types
  ELSE <<>>

DeclaredEdges(regs, options) ==
  [id \in Ids |-> IF regs[id].kind = "class"
                  THEN Range(DeclaredDependencies(regs[id], options))
                  ELSE {}]

\* Some by-class registration is built without auto-wiring with a list
\* shorter than its class's required parameter count.
ArityShort(regs, options) ==
  \E id \in Ids :
    /\ regs[id].kind = "class"
    /\ ~(options.autowire /\ regs[id].use.autowire)
    /\ Reflection(regs[id].use.newable).count > Len(regs[id].use.dependencies)

-----------------------------------------------------------------------------
(* SpecUseClass: one UseClass object.                                      *)

\* What build was called on: the options, the registered identifiers, the
\* declared dependency edges, and whether some by-class registration was
\* short of its class's parameter count.
BuildCall(regs, options) ==
  [called |-> TRUE, options |-> options, registered |-> Registered(regs),
   edges |-> DeclaredEdges(regs, options), arityShort |-> ArityShort(regs, options)]

NotBuilt ==
  [called |-> FALSE, options |-> [autowire |-> TRUE], registered |-> {},
   edges |-> [id \in Ids |-> {}], arityShort |-> FALSE]

MainIdle ==
  /\ phase = "registering"
  /\ buildables = EmptyRegistry
  /\ buildCall = NotBuilt
  /\ buildError = NoFailure
  /\ services = EmptyMap
  /\ stack = <<>>
  /\ current = Idle
  /\ history = <<>>
  /\ nextObj = 0
  /\ factoryCalls = 0

UseIdle ==
  /\ use = createBuildable("A")
  /\ classInfo = [count |-> 0, types |-> <<>>]
  /\ useResult = [status |-> "pending"]
  /\ providerCalls = <<>>
  /\ explicit = NoExplicit

InitUseClass ==
  /\ \E newable \in Ids : use = createBuildable(newable)
  /\ classInfo \in ClassInfos
  /\ useResult = [status |-> "pending"]
  /\ providerCalls = <<>>
  /\ explicit = NoExplicit
  /\ MainIdle

UseWithDependencies(dependencies) ==
  /\ useResult.status = "pending"
  /\ use' = withDependencies(use, dependencies)
  /\ explicit' = [given |-> TRUE, list |-> dependencies]
  /\ UNCHANGED <<classInfo, useResult, providerCalls>>
  /\ UNCHANGED mainVars

UseBuild(options) ==
  /\ useResult.status = "pending"
  /\ LET r == UseClass_build(use, options, classInfo)
     IN  /\ use' = r.use
         /\ useResult' =
              IF r.status = "threw"
              THEN [status |-> "threw", error |-> r.error, options |-> options]
              ELSE [status |-> "ok", data |-> r.data, options |-> options]
  /\ providerCalls' = UseClass_build(use, options, classInfo).calls
  /\ UNCHANGED <<classInfo, explicit>>
  /\ UNCHANGED mainVars

NextUseClass ==
  \/ \E dependencies \in DepLists : UseWithDependencies(dependencies)
  \/ \E options \in BuildOptions : UseBuild(options)

SpecUseClass == InitUseClass /\ [][NextUseClass]_vars

-----------------------------------------------------------------------------
(* Spec: builder and container.                                            *)

Init ==
  /\ UseIdle
  /\ MainIdle

\* register(id).use(id), or registerAndUse(id); registering an identifier
\* again replaces its pending strategy.
RegisterUse ==
  /\ phase = "registering"
  /\ \E id \in Ids :
       buildables' = [buildables EXCEPT ![id] =
                        [kind |-> "class", use |-> createBuildable(id)]]
  /\ UNCHANGED <<phase, buildCall, buildError, services, stack, current, history,
                 nextObj, factoryCalls>>
  /\ UNCHANGED useVars

\* register(id).use(id).withDependencies(dependencies): the call chained to
\* the registration (once per registration; SpecUseClass repeats it).
RegisterWithDependencies ==
  /\ phase = "registering"
  /\ \E id \in {i \in Ids : buildables[i].kind = "class"} :
       /\ buildables[id].use.autowire
       /\ \E dependencies \in DepLists :
            buildables' = [buildables EXCEPT ![id] =
                             [kind |-> "class",
                              use |-> withDependencies(buildables[id].use, dependencies)]]
  /\ UNCHANGED <<phase, buildCall, buildError, services, stack, current, history,
                 nextObj, factoryCalls>>
  /\ UNCHANGED useVars

RegisterUseInstance ==
  /\ phase = "registering"
  /\ \E id \in Ids :
       buildables' = [buildables EXCEPT ![id] =
                        [kind |-> "instance", instance |-> StoredInstance(id)]]
  /\ UNCHANGED <<phase, buildCall, buildError, services, stack, current, history,
                 nextObj, factoryCalls>>
  /\ UNCHANGED useVars

RegisterUseFactory ==
  /\ phase = "registering"
  /\ \E id \in Ids :
       buildables' = [buildables EXCEPT ![id] = [kind |-> "factory", factory |-> id]]
  /\ UNCHANGED <<phase, buildCall, buildError, services, stack, current, history,
                 nextObj, factoryCalls>>
  /\ UNCHANGED useVars

\* ContainerBuilder.build(options). The builder is consumed: it takes no
\* registration and no build afterwards. buildCall keeps what it was called
\* on.
Build(options) ==
  /\ phase = "registering"
  /\ \E outcome \in BuildOutcomes(buildables, options) :
       /\ phase' = IF outcome.ok THEN "ready" ELSE "failed"
       /\ services' = outcome.map
       /\ buildError' = outcome.failure
  /\ buildCall' = BuildCall(buildables, options)
  /\ buildables' = EmptyRegistry
  /\ UNCHANGED <<stack, current, history, nextObj, factoryCalls>>
  /\ UNCHANGED useVars

\* new Container(services), without a builder.
NewContainer ==
  /\ phase = "registering"
  /\ buildables = EmptyRegistry
  /\ phase' = "ready"
  /\ \E shapes \in [Ids -> EntryShapes] : services' = ServiceMapOf(shapes)
  /\ UNCHANGED <<buildables, buildCall, buildError, stack, current, history,
                 nextObj, factoryCalls>>
  /\ UNCHANGED useVars

\* An uncaught throw inside get unwinds every active call.
Throw(call, error) ==
  /\ stack' = <<>>
  /\ current' = Idle
  /\ history' = Append(history,
                  Finished(call, "threw", NoValue, error, nextObj, factoryCalls))
  /\ UNCHANGED <<nextObj, factoryCalls>>

\* container.get(id), called from outside. The calls of one run ask for one
\* identifier, again and again.
Get(id) ==
  /\ phase = "ready"
  /\ current.status = "idle"
  /\ Len(history) < MaxGets
  /\ history # <<>> => id = history[1].identifier
  /\ LET found == findServiceDataOrThrow(services, id)
     IN  IF found.threw
         THEN Throw(Running(id), found.error)
         ELSE /\ stack' = <<Frame(id)>>
              /\ current' = Running(id)
              /\ UNCHANGED <<history, nextObj, factoryCalls>>
  /\ UNCHANGED <<phase, buildables, buildCall, buildError, services>>
  /\ UNCHANGED useVars

\* One turn of the loop of getDependencies in the innermost call: the
\* recursive this.get(dependencyIdentifier) starts.
GetDependenciesStep ==
  /\ current.status = "running"
  /\ stack # <<>>
  /\ LET top  == stack[Len(stack)]
         data == services[top.identifier]
     IN  /\ hasNext(top.dependencies, data.dependencies)
         /\ LET dependencyIdentifier == data.dependencies[Len(top.dependencies) + 1]
                found == findServiceDataOrThrow(services, dependencyIdentifier)
            IN  IF found.threw
                THEN Throw(current, found.error)
                ELSE /\ Len(stack) < MaxDepth
                     /\ stack' = Append(stack, Frame(dependencyIdentifier))
                     /\ UNCHANGED <<current, history, nextObj, factoryCalls>>
  /\ UNCHANGED <<phase, buildables, buildCall, buildError, services>>
  /\ UNCHANGED useVars

\* The innermost call has all its dependencies and returns: to the loop of
\* its caller, or to the outside.
ReturnStep ==
  /\ current.status = "running"
  /\ stack # <<>>
  /\ LET top   == stack[Len(stack)]
         data  == services[top.identifier]
         value == realize(data, top.dependencies, nextObj)
         rest  == SubSeq(stack, 1, Len(stack) - 1)
         objs  == IF data.type = "Class" THEN nextObj + 1 ELSE nextObj
         facts == IF data.type = "Factory" THEN factoryCalls + 1 ELSE factoryCalls
     IN  /\ ~hasNext(top.dependencies, data.dependencies)
         /\ nextObj' = objs
         /\ factoryCalls' = facts
         /\ IF rest = <<>>
            THEN /\ stack' = <<>>
                 /\ current' = Idle
                 /\ history' = Append(history,
                                 Finished(current, "returned", value, NoError, objs, facts))
            ELSE /\ stack' = [rest EXCEPT ![Len(rest)].dependencies =
                                pushDependency(@, value)]
                 /\ UNCHANGED <<current, history>>
  /\ UNCHANGED <<phase, buildables, buildCall, buildError, services>>
  /\ UNCHANGED useVars

Next ==
  \/ RegisterUse
  \/ RegisterWithDependencies
  \/ RegisterUseInstance
  \/ RegisterUseFactory
  \/ \E options \in BuildOptions : Build(options)
  \/ NewContainer
  \/ \E id \in Ids : Get(id)
  \/ GetDependenciesStep
  \/ ReturnStep

Spec == Init /\ [][Next]_vars

\* get is synchronous code: once called, it runs on.
FairSpec == Spec /\ WF_vars(GetDependenciesStep \/ ReturnStep)

-----------------------------------------------------------------------------
(* Properties of UseClass (SpecUseClass).                                  *)

Built == useResult.status # "pending"

\* C6: with an explicit dependency list (auto-wire thereby disabled, for
\* either value of the global option), build throws the arity error naming
\* the service when the list is shorter than the class's required parameter
\* count, and succeeds when the list has that length or is longer.
C6_ArityCheck ==
  (Built /\ explicit.given) =>
    IF Len(explicit.list) < classInfo.count
    THEN /\ useResult.status = "threw"
         /\ useResult.error.kind = "DependenciesMustBeProvided"
         /\ useResult.error.name = use.newable
    ELSE useResult.status = "ok"

\* C6 witness: A list of one identifier for a class that requires two: build threw.
C6_Witness ==
  /\ explicit.given
  /\ Len(explicit.list) = 1
  /\ classInfo.count = 2
  /\ useResult.status = "threw"

\* C7: the ServiceData carries the explicit list, unchanged in content and
\* order, whenever withDependencies was called, for either value of the
\* global autowire option; the provider's dependenciesOf is called, and its
\* result used, only when the global option is true and no explicit list
\* was given.
C7_ExplicitListVerbatim ==
  /\ (useResult.status = "ok" /\ explicit.given) =>
        useResult.data.dependencies = explicit.list
  /\ (Built /\ "getDependencies" \in Range(providerCalls)) =>
        (useResult.options.autowire /\ ~explicit.given)
  /\ (useResult.status = "ok" /\ ~explicit.given) =>
        useResult.data.dependencies =
          IF useResult.options.autowire THEN classInfo.types ELSE <<>>

\* C7 witness: Built with the global option on and an explicit two-identifier list that
\* differs from what the provider would answer.
C7_Witness ==
  /\ useResult.status = "ok"
  /\ useResult.options.autowire
  /\ explicit.given
  /\ Len(explicit.list) = 2
  /\ explicit.list # classInfo.types
  /\ Len(classInfo.types) = 2
  /\ useResult.data.dependencies = explicit.list

\* C8 as stated: with explicit dependencies, build calls no operation of the
\* Dependency-List Provider, neither dependenciesOf nor dependencyCount.
C8_NoProviderCall ==
  (Built /\ explicit.given) => providerCalls = <<>>

\* C8 as amended: with explicit dependencies, build never calls
\* dependenciesOf; it calls dependencyCount, exactly once.
C8_OnlyCountCalled ==
  (Built /\ explicit.given) => providerCalls = <<"getDependencyCount">>

\* C8 witness: Built from an explicit list, with the global option on.
C8_Witness ==
  /\ useResult.status = "ok"
  /\ explicit.given
  /\ useResult.options.autowire
  /\ providerCalls = <<"getDependencyCount">>

-----------------------------------------------------------------------------
(* Properties of ContainerBuilder.build (Spec).                            *)

\* (dependant, dependency) pairs of the build call whose dependency was not
\* a registered key.
CallMissing ==
  {p \in Ids \X Ids : p[2] \in buildCall.edges[p[1]] /\ p[2] \notin buildCall.registered}

\* C1 as stated: whenever the by-class dependency lists form a cycle, build
\* fails with CircularDependency and returns no container, whatever else is
\* registered.
C1_CycleAlwaysCircular ==
  (buildCall.called /\ FormsCycle(buildCall.edges)) =>
    /\ phase = "failed"
    /\ services = EmptyMap
    /\ "CircularDependency" \in buildError.kinds

\* C1 as amended: whenever the by-class dependency lists form a cycle, build
\* returns no container; it fails with CircularDependency, reporting a loop
\* of the graph, unless a by-class strategy fails its arity check, and then
\* it fails with that arity error.
C1_CycleRejected ==
  (buildCall.called /\ FormsCycle(buildCall.edges)) =>
    /\ phase = "failed"
    /\ services = EmptyMap
    /\ IF buildCall.arityShort
       THEN buildError.kinds = {"DependencyArityMismatch"}
       ELSE /\ "CircularDependency" \in buildError.kinds
            /\ IsLoop(buildCall.edges, buildError.cycle)

\* C1 witness: build failed with CircularDependency citing a loop through two
\* identifiers, such as [A, B, A].
C1_Witness ==
  /\ phase = "failed"
  /\ "CircularDependency" \in buildError.kinds
  /\ Len(buildError.cycle) = 3
  /\ buildError.cycle[1] # buildError.cycle[2]

\* C2 as stated: whenever a by-class registration lists a dependency that is
\* not a registered key, build fails with UnregisteredDependency, naming the
\* dependant and the missing identifier, and returns no container.
C2_MissingAlwaysUnregistered ==
  (buildCall.called /\ CallMissing # {}) =>
    /\ phase = "failed"
    /\ services = EmptyMap
    /\ "UnregisteredDependency" \in buildError.kinds
    /\ CallMissing \subseteq buildError.missing

\* C2 as amended: whenever a by-class registration lists a dependency that
\* is not a registered key, build returns no container; it fails with
\* UnregisteredDependency, naming each dependant and missing identifier,
\* unless a by-class strategy fails its arity check, and then it fails with
\* that arity error.
C2_MissingRejected ==
  (buildCall.called /\ CallMissing # {}) =>
    /\ phase = "failed"
    /\ services = EmptyMap
    /\ IF buildCall.arityShort
       THEN buildError.kinds = {"DependencyArityMismatch"}
       ELSE /\ "UnregisteredDependency" \in buildError.kinds
            /\ buildError.missing = CallMissing

\* C2 witness: build failed with UnregisteredDependency citing dependant A, missing B.
C2_Witness ==
  /\ phase = "failed"
  /\ "UnregisteredDependency" \in buildError.kinds
  /\ <<"A", "B">> \in buildError.missing

-----------------------------------------------------------------------------
(* Properties of Container.get (Spec, FairSpec).                           *)

\* C3: get(id) from outside with an identifier that is not a key of the
\* service map throws the error naming that identifier at once: no call
\* stays active, nothing was constructed, no factory was invoked, and the
\* service map is as before.
C3_UnregisteredLookup ==
  [][(phase = "ready" /\ current.status = "idle"
        /\ (current' # current \/ history' # history)) =>
       LET id == IF current'.status = "running"
                 THEN current'.identifier
                 ELSE history'[Len(history')].identifier
       IN  id \notin DOMAIN services =>
             /\ current' = Idle
             /\ stack' = <<>>
             /\ Len(history') = Len(history) + 1
             /\ history'[Len(history')].status = "threw"
             /\ history'[Len(history')].error.kind = "ServiceNotRegistered"
             /\ history'[Len(history')].error.name = id
             /\ nextObj' = nextObj
             /\ factoryCalls' = factoryCalls
             /\ services' = services]_vars

\* C3 witness: A call for an identifier that is not a key threw, on a non-empty map.
C3_Witness ==
  /\ history # <<>>
  /\ history[1].status = "threw"
  /\ history[1].identifier \notin DOMAIN services
  /\ history[1].error.name = history[1].identifier
  /\ DOMAIN services # {}

\* The serial numbers of the class instances in the object graph of v.
RECURSIVE Oids(_)
Oids(v) ==
  (IF v.kind = "object" THEN {v.oid} ELSE {})
    \cup UNION {Oids(v.args[i]) : i \in 1..Len(v.args)}

\* v is what get(id) must return: for a by-class id with dependency list
\* d1..dn, an instance of its class with exactly n arguments, the i-th what
\* get(di) must return, everything in the i-th argument constructed before
\* everything in the later ones, and all of it before the instance itself.
RECURSIVE ResultOf(_, _)
ResultOf(v, id) ==
  LET data == services[id]
  IN  IF data.type = "Class"
      THEN /\ v.kind = "object"
           /\ v.of = data.class
           /\ Len(v.args) = Len(data.dependencies)
           /\ \A i \in 1..Len(v.args) :
                /\ ResultOf(v.args[i], data.dependencies[i])
                /\ \A o \in Oids(v.args[i]) : o < v.oid
                /\ \A j \in 1..(i - 1) :
                     \A a \in Oids(v.args[j]), b \in Oids(v.args[i]) : a < b
      ELSE IF data.type = "Instance"
      THEN v = data.instance
      ELSE v = FactoryProduct(data.factory)

Returned == {i \in 1..Len(history) : history[i].status = "returned"}

\* C4: what get returns for a by-class identifier is built from its declared
\* dependency list, in that order, each dependency complete before its
\* dependant; so is every dependency already resolved by a running call.
C4_DeclaredOrder ==
  /\ \A i \in Returned : ResultOf(history[i].value, history[i].identifier)
  /\ \A k \in 1..Len(stack) :
       /\ Len(stack[k].dependencies) <= Len(services[stack[k].identifier].dependencies)
       /\ \A i \in 1..Len(stack[k].dependencies) :
            ResultOf(stack[k].dependencies[i],
                     services[stack[k].identifier].dependencies[i])

\* C4 witness: A -> [], B -> [A], C -> [B]: get(C) constructed A, then B(A), then C(B).
C4_Witness ==
  /\ DOMAIN services = {"A", "B", "C"}
  /\ services["A"].type = "Class" /\ services["A"].dependencies = <<>>
  /\ services["B"].type = "Class" /\ services["B"].dependencies = <<"A">>
  /\ services["C"].type = "Class" /\ services["C"].dependencies = <<"B">>
  /\ history # <<>>
  /\ history[1].status = "returned"
  /\ history[1].value =
       [kind |-> "object", of |-> "C", oid |-> 3, args |->
         <<[kind |-> "object", of |-> "B", oid |-> 2, args |->
             <<[kind |-> "object", of |-> "A", oid |-> 1, args |-> <<>>]>>]>>]

\* C5: two calls of get(id) for a by-class id return distinct instances,
\* each made of class instances constructed during that very call; no class
\* instance is part of both results.
C5_NoCaching ==
  \A i \in Returned :
    services[history[i].identifier].type = "Class" =>
      /\ history[i].value.kind = "object"
      /\ \A o \in Oids(history[i].value) :
           history[i].objs0 < o /\ o <= history[i].objs1
      /\ \A j \in Returned :
           (j # i /\ history[j].identifier = history[i].identifier) =>
             /\ history[j].value # history[i].value
             /\ Oids(history[j].value) \cap Oids(history[i].value) = {}

\* C5 witness: Two finished calls for a by-class id whose instance has a by-class
\* dependency.
C5_Witness ==
  /\ Len(history) = 2
  /\ Returned = {1, 2}
  /\ services[history[1].identifier].type = "Class"
  /\ Cardinality(Oids(history[1].value)) >= 2
  /\ Cardinality(Oids(history[2].value)) >= 2

\* C9: every call of get(id) for a by-instance id returns the stored value,
\* constructs no class instance and invokes no factory.
C9_InstanceIdentity ==
  \A i \in 1..Len(history) :
    (history[i].identifier \in DOMAIN services
       /\ services[history[i].identifier].type = "Instance") =>
      /\ history[i].status = "returned"
      /\ history[i].value = services[history[i].identifier].instance
      /\ history[i].objs1 = history[i].objs0
      /\ history[i].fact1 = history[i].fact0

\* C9 witness: Two finished calls for a by-instance id returned the same stored value.
C9_Witness ==
  /\ Len(history) = 2
  /\ history[1].identifier \in DOMAIN services
  /\ services[history[1].identifier].type = "Instance"
  /\ history[1].value = history[2].value
  /\ history[1].value = StoredInstance(history[1].identifier)

\* The edges get follows: the dependency list of every entry.
ServiceEdges ==
  [id \in Ids |-> IF id \in DOMAIN services
                  THEN Range(services[id].dependencies)
                  ELSE {}]

\* Every listed dependency is a key.
Complete == \A id \in DOMAIN services : ServiceEdges[id] \subseteq DOMAIN services

Acyclic == ~FormsCycle(ServiceEdges)

\* A cycle of the map can be reached from id.
CycleReachable(id) ==
  \E a \in Reach(ServiceEdges, {id}, Cardinality(Ids)) :
    a \in Reach(ServiceEdges, ServiceEdges[a], Cardinality(Ids))

\* On a complete and acyclic map: the recursion is never deeper than the
\* number of keys, a call for a registered id never throws, and a running
\* call ends.
WellFoundedOnValidMaps ==
  /\ [](phase = "ready" /\ Complete /\ Acyclic =>
          /\ Len(stack) <= Cardinality(DOMAIN services)
          /\ \A i \in 1..Len(history) :
               history[i].identifier \in DOMAIN services =>
                 history[i].status = "returned")
  /\ (phase = "ready" /\ Complete /\ Acyclic /\ current.status = "running")
       ~> (current.status = "idle")

\* C10 as stated: on a complete and acyclic map get(id) terminates, never
\* throws for a registered id and recurses no deeper than the number of keys;
\* on a map with a cycle reachable from id, get(id) never terminates.
C10_CycleNeverTerminates ==
  /\ WellFoundedOnValidMaps
  /\ [](\A i \in 1..Len(history) : ~CycleReachable(history[i].identifier))

\* C10 as amended: the first half as stated; on a map with a cycle reachable
\* from id, get(id) never returns a value, and never terminates if the map is
\* complete (on an incomplete map it may end by throwing the
\* unregistered-lookup error for a missing dependency met before the cycle).
C10_CycleNeverReturns ==
  /\ WellFoundedOnValidMaps
  /\ [](\A i \in 1..Len(history) :
          CycleReachable(history[i].identifier) =>
            /\ history[i].status = "threw"
            /\ ~Complete)

\* C10 witness: On a complete map with a cycle, a running call is deeper than the map has
\* keys.
C10_Witness ==
  /\ Complete
  /\ current.status = "running"
  /\ CycleReachable(current.identifier)
  /\ Len(stack) > Cardinality(DOMAIN services)

=============================================================================
